---- MODULE Spec2Model ----
(***************************************************************************)
(* Model of the audio-features service: the from-query and from-upload     *)
(* orchestrators (app/core/audio_utils.py), the resolvers they call        *)
(* (app/core/resolvers.py), the decoder with its temp-file fallback, the   *)
(* Krumhansl-Schmuckler key estimator and the Camelot lookup               *)
(* (app/core/config.py).                                                   *)
(*                                                                         *)
(* Optional values: Python None is the empty tuple, a present value v is   *)
(* the one-element tuple <<v>>.  Byte buffers are sequences of 0..255.     *)
(* External libraries and network peers are the environment: each call to  *)
(* one of them nondeterministically returns a value or raises.             *)
(***************************************************************************)
EXTENDS Integers, Sequences, FiniteSets, TLC

VARIABLES
    flow,        \* "query" | "upload" | "decoder" | "camelot" | "key" | "loop": the entry point exercised
    q,           \* the AnalyzeQuery object (mutated by enrichment)
    q0,          \* the AnalyzeQuery as received (history)
    spid,        \* parsed spotify id
    notes,       \* analysis notes, in order
    pc,          \* position of the request's coroutine
    status,      \* 0 while running, then 200 | 404 | 500
    error,       \* origin of the exception that ended the request, "" if none
    log,         \* resolver / library calls made so far, in order
    preview_meta,\* result of the catalog resolvers
    audio_bytes, \* the buffer handed to the decoder
    dec,         \* decoder locals: ext, tmp file state, fallback count, raised error
    sig,         \* decoded signal (y, sr)
    est,         \* what the key estimator did
    response,    \* the record returned to the client
    tasks,       \* event loop: stage of each in-flight request
    running,     \* event loop: request whose code holds the loop thread, 0 if idle
    arg,         \* arguments of a pure function applied on its own
    ret          \* its result

vars == <<flow, q, q0, spid, notes, pc, status, error, log, preview_meta,
          audio_bytes, dec, sig, est, response, tasks, running, arg, ret>>

reqVars == <<flow, q, q0, spid, notes, pc, status, error, log, preview_meta,
             audio_bytes, dec, sig, est, response>>
loopVars == <<tasks, running>>
fnVars == <<arg, ret>>

-----------------------------------------------------------------------------
(* Bounds *)

MaxItems == 2      \* items in a catalog search response
MaxPad == 14       \* filler bytes between a buffer's prefix and its marker
MaxSal == 1        \* largest pitch-class salience
NReq == 3          \* requests in flight on one event loop

(* Program constants *)

TARGET_SR == 22050
HeadLen == 16
IdLen == 22

-----------------------------------------------------------------------------
(* Python values *)

None == <<>>
Some(v) == <<v>>

\* bool(v) of an optional string: None and "" are falsy
Truthy(v) == v # None /\ v # Some("")

\* a or b
Or(a, b) == IF Truthy(a) THEN a ELSE b

\* Last element of a non-empty list (notes[-1])
Last(s) == s[Len(s)]

\* sep.join(names)
RECURSIVE Join(_, _)
Join(sep, names) ==
    IF Len(names) = 0 THEN ""
    ELSE IF Len(names) = 1 THEN names[1]
    ELSE names[1] \o sep \o Join(sep, Tail(names))

-----------------------------------------------------------------------------
(* app/core/resolvers.py *)

\* characters matched by [0-9A-Za-z] among those the inputs use
Alnum == {"a", "7", "Z", "t", "r", "c", "k", "s", "i"}

\* a 22-character identifier and inputs around it
SampleId == [i \in 1..IdLen |-> IF i % 3 = 0 THEN "7" ELSE IF i % 3 = 1 THEN "a" ELSE "Z"]
SpotifyInputs ==
    { None,
      Some(<<>>),
      Some(SubSeq(SampleId, 1, IdLen - 1)),
      Some(<<"/", "t", "r", "a", "c", "k", "/">> \o <<"Z">> \o SampleId \o <<"?", "s", "i">>) }

\* _SPOTIFY_ID_RE.search(s): the leftmost run of IdLen alphanumerics (the
\* optional prefix ends in a non-alphanumeric and so never moves the group)
parse_spotify_id(s) ==
    IF s = None \/ s = Some(<<>>) THEN None
    ELSE LET str == s[1]
             starts == { i \in 1..(Len(str) - IdLen + 1) :
                           \A j \in i..(i + IdLen - 1) : str[j] \in Alnum }
         IN  IF starts = {} THEN None
             ELSE Some(SubSeq(str, CHOOSE i \in starts : \A k \in starts : i <= k,
                              (CHOOSE i \in starts : \A k \in starts : i <= k) + IdLen - 1))

\* the "preview" / "previewUrl" values a catalog item can carry
ItemPreviews == {None, Some(""), Some("http://cdn/preview")}

\* the item lists a catalog search can return ("data" / "results")
ItemLists == UNION { [1..n -> ItemPreviews] : n \in 0..MaxItems }

\* the loop of resolve_deezer_preview / resolve_apple_preview: the first item
\* with a truthy preview, tagged with the catalog's source name
FirstPreview(items, source) ==
    LET hits == { i \in 1..Len(items) : Truthy(items[i]) }
    IN  IF hits = {} THEN None
        ELSE Some([preview_url |-> items[CHOOSE i \in hits : \A k \in hits : i <= k],
                   source |-> source])

\* the early return shared by both catalog resolvers: nothing to search for
NoSearchTerms(query) == ~(Truthy(query.artist) \/ Truthy(query.title))

\* JSON bodies the metadata endpoint can return
SpotifyData ==
    [ name : {None, Some("Meta Title")},
      artists : {<<>>, <<"Meta Artist">>, <<"Meta Artist", "Feat">>},
      preview_url : {None, Some("http://sp/p")} ]

\* the dict built by resolve_spotify_metadata
resolve_spotify_metadata(data) ==
    [ title |-> data.name,
      artist |-> Some(Join(", ", data.artists)),
      preview_url |-> data.preview_url ]

-----------------------------------------------------------------------------
(* app/core/audio_utils.py: orchestrators, up to the fetched bytes *)

NoteSpotifyPreview == "Spotify preview_url present; not used for downloads."
NoteSpotifyFailed == "Spotify metadata fetch failed; continuing."
NoteProvidedUrl == "Used provided audio_url."
NoteUpload == "Analyzed uploaded audio file."

\* variant: the note names the primary catalog whatever the source
NoteFetched_AlwaysDeezer(source) == "Fetched preview from deezer."

\* f"Fetched preview from {preview_meta['source']}."
NoteFetched(source) == "Fetched preview from " \o source \o "."

\* the request bodies POST /analyze is exercised with
Queries ==
    [ spotify : SpotifyInputs,
      artist : {None, Some("Aretha Franklin")},
      title : {None, Some("Respect")},
      audio_url : {None, Some(""), Some("http://host/a.mp3")},
      spotify_bearer : {None, Some("token")} ]

NoQuery == [spotify |-> None, artist |-> None, title |-> None,
            audio_url |-> None, spotify_bearer |-> None]

\* decoder locals before load_audio_from_bytes runs
DecIdle == [ext |-> "", tmp |-> "none", fallbacks |-> 0, raised |-> "", direct |-> ""]

\* an exception leaves the coroutine: the framework answers 500
Raise(origin) ==
    /\ status' = 500
    /\ error' = origin
    /\ pc' = "done"

\* variant: a plain exception instead of the HTTPException
RaiseNotFound_AsServerError ==
    /\ status' = 500
    /\ error' = "not_found"
    /\ pc' = "done"

\* raise HTTPException(status_code=404, ...)
RaiseNotFound ==
    /\ status' = 404
    /\ error' = "not_found"
    /\ pc' = "done"

\* analyze_audio_from_url up to its first await: parse the id, then either
\* start the metadata call or go on to the audio source
QueryStart ==
    /\ flow = "query" /\ pc = "start"
    /\ spid' = parse_spotify_id(q.spotify)
    /\ IF spid' # None /\ Truthy(q.spotify_bearer)
       THEN /\ pc' = "await_spotify"
            /\ log' = Append(log, "resolve_spotify_metadata")
       ELSE /\ pc' = "choose_source"
            /\ log' = log
    /\ UNCHANGED <<flow, q, q0, notes, status, error, preview_meta, audio_bytes,
                   dec, sig, est, response, loopVars, fnVars>>

\* the metadata call returns: fill in missing title / artist, note a preview
SpotifyReturns ==
    /\ flow = "query" /\ pc = "await_spotify"
    /\ \E data \in SpotifyData :
         LET spmeta == resolve_spotify_metadata(data)
             t == IF Truthy(spmeta.title) THEN Or(q.title, spmeta.title) ELSE q.title
             a == IF Truthy(spmeta.artist) THEN Or(q.artist, spmeta.artist) ELSE q.artist
         IN  /\ q' = [q EXCEPT !.title = t, !.artist = a]
             /\ notes' = IF Truthy(spmeta.preview_url)
                         THEN Append(notes, NoteSpotifyPreview)
                         ELSE notes
    /\ pc' = "choose_source"
    /\ UNCHANGED <<flow, q0, spid, status, error, log, preview_meta, audio_bytes,
                   dec, sig, est, response, loopVars, fnVars>>

\* variant: no try / except around the metadata call
SpotifyFails_Fatal ==
    /\ flow = "query" /\ pc = "await_spotify"
    /\ log' = Append(log, "resolve_spotify_metadata raised")
    /\ Raise("resolve_spotify_metadata")
    /\ UNCHANGED <<flow, q, q0, spid, notes, preview_meta, audio_bytes,
                   dec, sig, est, response, loopVars, fnVars>>

\* the metadata call raises (timeout, HTTP status, bad JSON, an artist entry
\* without a name): caught, one note, the query untouched
SpotifyFails ==
    /\ flow = "query" /\ pc = "await_spotify"
    /\ notes' = Append(notes, NoteSpotifyFailed)
    /\ log' = Append(log, "resolve_spotify_metadata raised")
    /\ pc' = "choose_source"
    /\ UNCHANGED <<flow, q, q0, spid, status, error, preview_meta, audio_bytes,
                   dec, sig, est, response, loopVars, fnVars>>

\* "Choose audio source" up to the next await.  A resolver called with no
\* artist and no title returns None without touching the network.
ChooseSource ==
    /\ flow = "query" /\ pc = "choose_source"
    /\ IF Truthy(q.audio_url)
       THEN /\ pc' = "await_fetch_url"
            /\ log' = Append(log, "fetch_bytes")
            /\ UNCHANGED <<status, error>>
       ELSE IF ~NoSearchTerms(q)
       THEN /\ pc' = "await_deezer"
            /\ log' = Append(log, "resolve_deezer_preview")
            /\ UNCHANGED <<status, error>>
       ELSE /\ log' = log \o <<"resolve_deezer_preview", "resolve_apple_preview">>
            /\ RaiseNotFound
    /\ UNCHANGED <<flow, q, q0, spid, notes, preview_meta, audio_bytes,
                   dec, sig, est, response, loopVars, fnVars>>

\* the Deezer search answers: take its first preview, else ask Apple
DeezerReturns ==
    /\ flow = "query" /\ pc = "await_deezer"
    /\ \E items \in ItemLists :
         LET found == FirstPreview(items, "deezer")
         IN  IF found # None
             THEN /\ preview_meta' = found
                  /\ pc' = "await_fetch_preview"
                  /\ log' = Append(log, "fetch_bytes")
                  /\ UNCHANGED <<status, error>>
             ELSE IF ~NoSearchTerms(q)
             THEN /\ preview_meta' = None
                  /\ pc' = "await_apple"
                  /\ log' = Append(log, "resolve_apple_preview")
                  /\ UNCHANGED <<status, error>>
             ELSE /\ preview_meta' = None
                  /\ log' = Append(log, "resolve_apple_preview")
                  /\ RaiseNotFound
    /\ UNCHANGED <<flow, q, q0, spid, notes, audio_bytes,
                   dec, sig, est, response, loopVars, fnVars>>

\* the Deezer search raises inside _fetch_json (timeout, raise_for_status,
\* r.json()) or on a body that is not an object: nothing catches it
DeezerFails ==
    /\ flow = "query" /\ pc = "await_deezer"
    /\ log' = Append(log, "resolve_deezer_preview raised")
    /\ Raise("resolve_deezer_preview")
    /\ UNCHANGED <<flow, q, q0, spid, notes, preview_meta, audio_bytes,
                   dec, sig, est, response, loopVars, fnVars>>

\* the Apple search answers: take its first preview, else 404
AppleReturns ==
    /\ flow = "query" /\ pc = "await_apple"
    /\ \E items \in ItemLists :
         LET found == FirstPreview(items, "apple")
         IN  IF found # None
             THEN /\ preview_meta' = found
                  /\ pc' = "await_fetch_preview"
                  /\ log' = Append(log, "fetch_bytes")
                  /\ UNCHANGED <<status, error>>
             ELSE /\ preview_meta' = None
                  /\ log' = log
                  /\ RaiseNotFound
    /\ UNCHANGED <<flow, q, q0, spid, notes, audio_bytes,
                   dec, sig, est, response, loopVars, fnVars>>

\* the Apple search raises: nothing catches it
AppleFails ==
    /\ flow = "query" /\ pc = "await_apple"
    /\ log' = Append(log, "resolve_apple_preview raised")
    /\ Raise("resolve_apple_preview")
    /\ UNCHANGED <<flow, q, q0, spid, notes, preview_meta, audio_bytes,
                   dec, sig, est, response, loopVars, fnVars>>

-----------------------------------------------------------------------------
(* Byte buffers *)

ID3 == <<73, 68, 51>>                \* b"ID3"
FTYP == <<102, 116, 121, 112>>       \* b"ftyp"
SyncWords == {<<255, 251>>, <<255, 243>>, <<255, 242>>}   \* ff fb, ff f3, ff f2

Zeros(n) == [i \in 1..n |-> 0]

BufPrefixes == { <<>>, ID3, <<73, 68>>, <<255, 251>>, <<255, 243>>, <<255, 242>>,
                 <<255, 250>>, <<82, 73, 70, 70>> }
BufMarkers == { <<>>, FTYP, <<102, 116, 121>> }

\* buffers given to the decoder on its own: a prefix, filler, a marker that
\* may fall inside, across or beyond the first HeadLen bytes
ByteBufs == { p \o Zeros(n) \o m : p \in BufPrefixes, n \in 0..MaxPad, m \in BufMarkers }

\* buffers a fetch or an upload delivers in the request flows
FetchedBufs == { ID3 \o <<4, 0>>, Zeros(4) \o FTYP \o <<77, 52, 65>> }

\* b[:n]
Take(b, n) == SubSeq(b, 1, IF Len(b) < n THEN Len(b) ELSE n)

\* sub in b
Contains(b, sub) ==
    \E i \in 1..(Len(b) - Len(sub) + 1) : SubSeq(b, i, i + Len(sub) - 1) = sub

\* variant: the signature is searched in the whole buffer, not in b[:16]
_guess_ext_WholeBuffer(b) ==
    IF Take(b, 3) = ID3 \/ Take(b, 2) \in SyncWords THEN ".mp3"
    ELSE IF Contains(b, FTYP) THEN ".m4a"
    ELSE ".mp3"

_guess_ext_from_magic(b) ==
    LET head == Take(b, HeadLen)
    IN  IF Take(head, 3) = ID3 \/ Take(head, 2) \in SyncWords THEN ".mp3"
        ELSE IF Contains(head, FTYP) THEN ".m4a"
        ELSE ".mp3"

-----------------------------------------------------------------------------
(* load_audio_from_bytes *)

SourceRates == {22050, 44100}
ClipSeconds == {1}

\* signals a decode can produce: n samples, mono, at the file's rate
Signals == { [n |-> sr * secs, sr |-> sr] : sr \in SourceRates, secs \in ClipSeconds }

\* sf.read accepts the buffer; several channels are averaged into one
SfReadOk ==
    /\ pc = "decode"
    /\ \E y \in Signals, channels \in 1..2 : sig' = Some(y)
    /\ dec' = [dec EXCEPT !.direct = "ok"]
    /\ log' = Append(log, "sf.read")
    /\ pc' = "resample"
    /\ UNCHANGED <<flow, q, q0, spid, notes, status, error, preview_meta,
                   audio_bytes, est, response, loopVars, fnVars>>

\* sf.read raises; the handler guesses an extension and creates the temp file
SfReadRejects ==
    /\ pc = "decode"
    /\ dec' = [dec EXCEPT !.direct = "rejected",
                          !.ext = _guess_ext_from_magic(audio_bytes),
                          !.fallbacks = @ + 1,
                          !.tmp = "exists"]
    /\ log' = log \o <<"sf.read raised", "NamedTemporaryFile">>
    /\ pc' = "tmp_write"
    /\ UNCHANGED <<flow, q, q0, spid, notes, status, error, preview_meta,
                   audio_bytes, sig, est, response, loopVars, fnVars>>

\* sf.read raises and the temp file cannot be created: no file, the error
\* leaves the decoder from inside the except block
SfReadRejectsNoTmp ==
    /\ pc = "decode"
    /\ dec' = [dec EXCEPT !.direct = "rejected",
                          !.ext = _guess_ext_from_magic(audio_bytes),
                          !.fallbacks = @ + 1,
                          !.raised = "NamedTemporaryFile"]
    /\ log' = log \o <<"sf.read raised", "NamedTemporaryFile raised">>
    /\ Raise("NamedTemporaryFile")
    /\ UNCHANGED <<flow, q, q0, spid, notes, preview_meta,
                   audio_bytes, sig, est, response, loopVars, fnVars>>

\* tmp.write / flush / close succeed
TmpWriteOk ==
    /\ pc = "tmp_write"
    /\ log' = Append(log, "tmp.write")
    /\ pc' = "tmp_load"
    /\ UNCHANGED <<flow, q, q0, spid, notes, status, error, preview_meta,
                   audio_bytes, dec, sig, est, response, loopVars, fnVars>>

\* tmp.write / flush / close raise: control goes to the finally block
TmpWriteFails ==
    /\ pc = "tmp_write"
    /\ dec' = [dec EXCEPT !.raised = "tmp.write"]
    /\ log' = Append(log, "tmp.write raised")
    /\ pc' = "tmp_cleanup"
    /\ UNCHANGED <<flow, q, q0, spid, notes, status, error, preview_meta,
                   audio_bytes, sig, est, response, loopVars, fnVars>>

\* librosa.load decodes the temp file
LibrosaLoadOk ==
    /\ pc = "tmp_load"
    /\ \E y \in Signals : sig' = Some(y)
    /\ log' = Append(log, "librosa.load")
    /\ pc' = "tmp_cleanup"
    /\ UNCHANGED <<flow, q, q0, spid, notes, status, error, preview_meta,
                   audio_bytes, dec, est, response, loopVars, fnVars>>

\* librosa.load raises: control goes to the finally block
LibrosaLoadFails ==
    /\ pc = "tmp_load"
    /\ dec' = [dec EXCEPT !.raised = "librosa.load"]
    /\ log' = Append(log, "librosa.load raised")
    /\ pc' = "tmp_cleanup"
    /\ UNCHANGED <<flow, q, q0, spid, notes, status, error, preview_meta,
                   audio_bytes, sig, est, response, loopVars, fnVars>>

\* leaving the finally block: re-raise what the try block raised, else go on
AfterFinally ==
    IF dec.raised # ""
    THEN Raise(dec.raised)
    ELSE /\ pc' = "resample"
         /\ UNCHANGED <<status, error>>

\* finally: os.unlink removes the file
UnlinkOk ==
    /\ pc = "tmp_cleanup"
    /\ dec' = [dec EXCEPT !.tmp = "removed"]
    /\ log' = Append(log, "os.unlink")
    /\ AfterFinally
    /\ UNCHANGED <<flow, q, q0, spid, notes, preview_meta,
                   audio_bytes, sig, est, response, loopVars, fnVars>>

\* variant: the cleanup error is not swallowed and replaces the outcome
UnlinkFails_Propagates ==
    /\ pc = "tmp_cleanup"
    /\ log' = Append(log, "os.unlink raised")
    /\ Raise("os.unlink")
    /\ UNCHANGED <<flow, q, q0, spid, notes, preview_meta,
                   audio_bytes, dec, sig, est, response, loopVars, fnVars>>

\* finally: os.unlink raises, "except Exception: pass" swallows it and the
\* file stays
UnlinkFails ==
    /\ pc = "tmp_cleanup"
    /\ log' = Append(log, "os.unlink raised")
    /\ AfterFinally
    /\ UNCHANGED <<flow, q, q0, spid, notes, preview_meta,
                   audio_bytes, dec, sig, est, response, loopVars, fnVars>>

\* librosa.resample(y, orig_sr, target_sr): the sample count scales with the rate
resample(y) == [n |-> (y.n * TARGET_SR + y.sr - 1) \div y.sr, sr |-> TARGET_SR]

\* the tail of load_audio_from_bytes: bring the signal to the target rate
Resample ==
    /\ pc = "resample"
    /\ sig' = IF sig[1].sr # TARGET_SR THEN Some(resample(sig[1])) ELSE sig
    /\ log' = log
    /\ pc' = "extract"
    /\ UNCHANGED <<flow, q, q0, spid, notes, status, error, preview_meta,
                   audio_bytes, dec, est, response, loopVars, fnVars>>

-----------------------------------------------------------------------------
(* app/core/config.py *)

\* KEY_TO_NUMBER.items(), in insertion order; a name is letter + accidental
KEY_TO_NUMBER ==
    << [letter |-> "C", acc |-> "",  num |-> 0],  [letter |-> "C", acc |-> "#", num |-> 1],
       [letter |-> "D", acc |-> "b", num |-> 1],  [letter |-> "D", acc |-> "",  num |-> 2],
       [letter |-> "D", acc |-> "#", num |-> 3],  [letter |-> "E", acc |-> "b", num |-> 3],
       [letter |-> "E", acc |-> "",  num |-> 4],  [letter |-> "F", acc |-> "",  num |-> 5],
       [letter |-> "F", acc |-> "#", num |-> 6],  [letter |-> "G", acc |-> "b", num |-> 6],
       [letter |-> "G", acc |-> "",  num |-> 7],  [letter |-> "G", acc |-> "#", num |-> 8],
       [letter |-> "A", acc |-> "b", num |-> 8],  [letter |-> "A", acc |-> "",  num |-> 9],
       [letter |-> "A", acc |-> "#", num |-> 10], [letter |-> "B", acc |-> "b", num |-> 10],
       [letter |-> "B", acc |-> "",  num |-> 11] >>

KeyName(item) == item.letter \o item.acc

\* KEY_TO_NUMBER[name]
KeyNumber(name) ==
    KEY_TO_NUMBER[CHOOSE i \in 1..Len(KEY_TO_NUMBER) : KeyName(KEY_TO_NUMBER[i]) = name].num

\* {v: k for k, v in KEY_TO_NUMBER.items() if len(k) == 1 or "#" in k}:
\* for each number the last listed name that passes the filter
NUMBER_TO_KEY_SHARP ==
    LET kept == { i \in 1..Len(KEY_TO_NUMBER) :
                    KEY_TO_NUMBER[i].acc = "" \/ KEY_TO_NUMBER[i].acc = "#" }
        nums == { KEY_TO_NUMBER[i].num : i \in kept }
    IN  [ v \in nums |->
            KeyName(KEY_TO_NUMBER[CHOOSE i \in kept :
                        /\ KEY_TO_NUMBER[i].num = v
                        /\ \A j \in kept : KEY_TO_NUMBER[j].num = v => j <= i]) ]

CAMELOT_TABLE ==
    [ k \in { "C major", "G major", "D major", "A major", "E major", "B major",
              "F# major", "C# major", "F major", "Bb major", "Eb major", "Ab major",
              "A minor", "E minor", "B minor", "F# minor", "C# minor", "G# minor",
              "D# minor", "A# minor", "D minor", "G minor", "C minor", "F minor" } |->
        CASE k = "C major" -> "8B"   [] k = "G major" -> "9B"   [] k = "D major" -> "10B"
          [] k = "A major" -> "11B"  [] k = "E major" -> "12B"  [] k = "B major" -> "1B"
          [] k = "F# major" -> "2B"  [] k = "C# major" -> "3B"  [] k = "F major" -> "7B"
          [] k = "Bb major" -> "6B"  [] k = "Eb major" -> "5B"  [] k = "Ab major" -> "4B"
          [] k = "A minor" -> "8A"   [] k = "E minor" -> "9A"   [] k = "B minor" -> "10A"
          [] k = "F# minor" -> "11A" [] k = "C# minor" -> "12A" [] k = "G# minor" -> "1A"
          [] k = "D# minor" -> "2A"  [] k = "A# minor" -> "3A"  [] k = "D minor" -> "7A"
          [] k = "G minor" -> "6A"   [] k = "C minor" -> "5A"   [] k = "F minor" -> "4A" ]

-----------------------------------------------------------------------------
(* Feature extractors *)

\* CAMELOT_TABLE.get(f"{key_name} {mode_name}"), None when an input is falsy
to_camelot(key_name, mode_name) ==
    IF ~Truthy(key_name) \/ ~Truthy(mode_name) THEN None
    ELSE LET k == key_name[1] \o " " \o mode_name[1]
         IN  IF k \in DOMAIN CAMELOT_TABLE THEN Some(CAMELOT_TABLE[k]) ELSE None

\* the tonal profiles, in hundredths
_KRUMHANSL_MAJOR ==
    [i \in 0..11 |-> <<635, 223, 348, 233, 438, 409, 252, 519, 239, 366, 229, 288>>[i + 1]]
_KRUMHANSL_MINOR ==
    [i \in 0..11 |-> <<633, 268, 352, 538, 260, 353, 254, 475, 398, 269, 334, 317>>[i + 1]]

\* np.dot(pc, np.roll(profile, k)), summed from index i: roll moves element
\* j of the profile to j + k
RECURSIVE RollDot(_, _, _, _)
RollDot(pcv, profile, k, i) ==
    IF i > 11 THEN 0
    ELSE pcv[i] * profile[(i - k + 12) % 12] + RollDot(pcv, profile, k, i + 1)

\* variant: a later score replaces the best when it is equal, too
RECURSIVE ArgMaxFrom_LastMax(_, _, _, _)
ArgMaxFrom_LastMax(pcv, profile, k, best) ==
    IF k > 11 THEN best
    ELSE LET sc == RollDot(pcv, profile, k, 0)
         IN  ArgMaxFrom_LastMax(pcv, profile, k + 1,
                                IF sc >= best.s THEN [k |-> k, s |-> sc] ELSE best)

\* np.argmax over scores[k..11] given the best of scores[0..k-1]: a later
\* score replaces the best only when strictly greater
RECURSIVE ArgMaxFrom(_, _, _, _)
ArgMaxFrom(pcv, profile, k, best) ==
    IF k > 11 THEN best
    ELSE LET sc == RollDot(pcv, profile, k, 0)
         IN  ArgMaxFrom(pcv, profile, k + 1,
                        IF sc > best.s THEN [k |-> k, s |-> sc] ELSE best)

\* best_rotation(profile): the first rotation with the highest score
best_rotation(pcv, profile) ==
    ArgMaxFrom(pcv, profile, 1, [k |-> 0, s |-> RollDot(pcv, profile, 0, 0)])

\* pitch-class salience vectors (chroma.mean(axis=1)), as whole numbers:
\* silence, single pitch classes, minor-third dyads, major and minor triads,
\* and tritone dyads, whose best major and minor scores are equal and are
\* each reached by two rotations
ZeroPC == [i \in 0..11 |-> 0]
Tone(k, s) == [i \in 0..11 |-> IF i = k THEN s ELSE 0]
Dyad(k, s) == [i \in 0..11 |-> IF i = k \/ i = (k + 3) % 12 THEN s ELSE 0]
Triad(k, s) == [i \in 0..11 |-> IF i = k THEN s + 1
                                 ELSE IF i \in {(k + 4) % 12, (k + 7) % 12} THEN s ELSE 0]
MinorTriad(k, s) == [i \in 0..11 |-> IF i = k THEN s + 1
                                      ELSE IF i \in {(k + 3) % 12, (k + 7) % 12} THEN s ELSE 0]
Tritone(k, s) == [i \in 0..11 |-> IF i = k \/ i = (k + 6) % 12 THEN s ELSE 0]
PCVectors ==
    {ZeroPC} \cup { Tone(k, s) : k \in 0..11, s \in 1..MaxSal }
             \cup { Dyad(k, s) : k \in 0..11, s \in 1..MaxSal }
             \cup { Triad(k, s) : k \in 0..11, s \in 1..MaxSal }
             \cup { MinorTriad(k, s) : k \in 0..11, s \in 1..MaxSal }
             \cup { Tritone(k, s) : k \in 0..11, s \in 1..MaxSal }

\* what librosa.feature.chroma_cqt + mean can do: raise, or give a vector
ChromaOutcomes ==
    {[raised |-> TRUE, pcv |-> ZeroPC]} \cup {[raised |-> FALSE, pcv |-> v] : v \in PCVectors}

\* the outcomes the request flows are exercised with: an error, silence, and
\* clips heard as each of the 12 major keys and as A minor
FlowChroma ==
    {[raised |-> TRUE, pcv |-> ZeroPC]}
    \cup {[raised |-> FALSE, pcv |-> v] : v \in {ZeroPC, Dyad(9, 1)} \cup {Tone(k, 1) : k \in 0..11}}

\* The tuple estimate_key_mode_krumhansl returns.  Dividing pc by its
\* maximum scales every score by the same positive factor, so the scores
\* are compared unscaled.
estimate_key_mode_krumhansl(chroma) ==
    IF chroma.raised THEN <<None, None, None>>
    ELSE IF \A i \in 0..11 : chroma.pcv[i] = 0 THEN <<None, None>>
    ELSE LET maj == best_rotation(chroma.pcv, _KRUMHANSL_MAJOR)
             min == best_rotation(chroma.pcv, _KRUMHANSL_MINOR)
             key_num == IF maj.s >= min.s THEN maj.k ELSE min.k
             mode == IF maj.s >= min.s THEN "major" ELSE "minor"
         IN  <<Some(key_num), Some(NUMBER_TO_KEY_SHARP[key_num]), Some(mode)>>

\* int(round(len(y) / sr * 1000.0))
compute_duration_ms(y) == (2 * y.n * 1000 + y.sr) \div (2 * y.sr)

\* values the tempo, loudness and energy extractors give (rounded to 3 places)
Measurements ==
    { [tempo |-> 120, loudness_db |-> -23, energy |-> 1] }

-----------------------------------------------------------------------------
(* Shaping and the rest of the orchestrators *)

ResponseFields ==
    { "acousticness", "danceability", "duration_ms", "energy", "instrumentalness",
      "key", "liveness", "loudness", "mode", "speechiness", "spotify_id", "tempo",
      "time_signature", "type", "valence", "key_name", "mode_name", "camelot",
      "analysis_notes" }

\* payload.get(k, default); every value of a payload or response is None or Some(v)
Get(payload, k, default) == IF k \in DOMAIN payload THEN payload[k] ELSE default

\* variant: fields whose value is None are left out of the record
to_spotify_like_DropNulls(payload) ==
    LET src == [ acousticness |-> "acousticness", danceability |-> "danceability",
                 duration_ms |-> "duration_ms", energy |-> "energy",
                 instrumentalness |-> "instrumentalness", key |-> "key_number",
                 liveness |-> "liveness", loudness |-> "loudness_db", mode |-> "mode_bit",
                 speechiness |-> "speechiness", spotify_id |-> "spotify_id",
                 tempo |-> "tempo", time_signature |-> "time_signature",
                 valence |-> "valence", key_name |-> "key_name",
                 mode_name |-> "mode_name", camelot |-> "camelot" ]
        kept == { f \in DOMAIN src : Get(payload, src[f], None) # None }
    IN  [ f \in kept \cup {"type", "analysis_notes"} |->
            IF f = "type" THEN Some("audio_features")
            ELSE IF f = "analysis_notes" THEN Get(payload, "analysis_notes", Some(<<>>))
            ELSE Get(payload, src[f], None) ]

to_spotify_like(payload) ==
    [ acousticness |-> Get(payload, "acousticness", None),
      danceability |-> Get(payload, "danceability", None),
      duration_ms |-> Get(payload, "duration_ms", None),
      energy |-> Get(payload, "energy", None),
      instrumentalness |-> Get(payload, "instrumentalness", None),
      key |-> Get(payload, "key_number", None),
      liveness |-> Get(payload, "liveness", None),
      loudness |-> Get(payload, "loudness_db", None),
      mode |-> Get(payload, "mode_bit", None),
      speechiness |-> Get(payload, "speechiness", None),
      spotify_id |-> Get(payload, "spotify_id", None),
      tempo |-> Get(payload, "tempo", None),
      time_signature |-> Get(payload, "time_signature", None),
      type |-> Some("audio_features"),
      valence |-> Get(payload, "valence", None),
      key_name |-> Get(payload, "key_name", None),
      mode_name |-> Get(payload, "mode_name", None),
      camelot |-> Get(payload, "camelot", None),
      analysis_notes |-> Get(payload, "analysis_notes", Some(<<>>)) ]

\* variant: the mode names are compared in their capitalised spelling
mode_bit_Capitalised(mode_name) ==
    IF mode_name = Some("Major") THEN Some(1)
    ELSE IF mode_name = Some("Minor") THEN Some(0)
    ELSE None

\* 1 if mode_name == "major" else (0 if mode_name == "minor" else None)
mode_bit(mode_name) ==
    IF mode_name = Some("major") THEN Some(1)
    ELSE IF mode_name = Some("minor") THEN Some(0)
    ELSE None

\* the features both orchestrators put in their payload; classify_with_models
\* returns {} so every classifier field is ml.get(...) = None
FeaturePayload(y, m, km) ==
    [ duration_ms |-> Some(compute_duration_ms(y)),
      tempo |-> Some(m.tempo),
      loudness_db |-> Some(m.loudness_db),
      energy |-> Some(m.energy),
      key_name |-> km[2],
      camelot |-> to_camelot(km[2], km[3]),
      key_number |-> km[1],
      mode_bit |-> mode_bit(km[3]),
      mode_name |-> km[3],
      time_signature |-> None,
      danceability |-> None,
      valence |-> None,
      acousticness |-> None,
      instrumentalness |-> None,
      speechiness |-> None,
      liveness |-> None ]

\* the payload of analyze_audio_from_url
UrlPayload(y, m, km) ==
    [ k \in DOMAIN FeaturePayload(y, m, km) \cup {"spotify_id", "analysis_notes"} |->
        IF k = "spotify_id" THEN spid
        ELSE IF k = "analysis_notes" THEN Some(notes)
        ELSE FeaturePayload(y, m, km)[k] ]

\* the payload of analyze_audio_from_upload
UploadPayload(y, m, km) ==
    [ k \in DOMAIN FeaturePayload(y, m, km) \cup {"id", "analysis_notes"} |->
        IF k = "id" THEN None
        ELSE IF k = "analysis_notes" THEN Some(<<NoteUpload>>)
        ELSE FeaturePayload(y, m, km)[k] ]

\* fetch_bytes answers: keep the bytes and note where they came from
FetchReturns ==
    /\ flow = "query" /\ pc \in {"await_fetch_url", "await_fetch_preview"}
    /\ \E b \in FetchedBufs : audio_bytes' = b
    /\ notes' = IF pc = "await_fetch_url"
                THEN Append(notes, NoteProvidedUrl)
                ELSE Append(notes, NoteFetched(preview_meta[1].source))
    /\ pc' = "decode"
    /\ UNCHANGED <<flow, q, q0, spid, status, error, log, preview_meta,
                   dec, sig, est, response, loopVars, fnVars>>

\* fetch_bytes raises (timeout, raise_for_status): nothing catches it
FetchFails ==
    /\ flow = "query" /\ pc \in {"await_fetch_url", "await_fetch_preview"}
    /\ log' = Append(log, "fetch_bytes raised")
    /\ Raise("fetch_bytes")
    /\ UNCHANGED <<flow, q, q0, spid, notes, preview_meta, audio_bytes,
                   dec, sig, est, response, loopVars, fnVars>>

\* analyze_audio_from_upload: b = await file.read()
UploadRead ==
    /\ flow = "upload" /\ pc = "start"
    /\ \E b \in FetchedBufs : audio_bytes' = b
    /\ log' = Append(log, "file.read")
    /\ pc' = "decode"
    /\ UNCHANGED <<flow, q, q0, spid, notes, status, error, preview_meta,
                   dec, sig, est, response, loopVars, fnVars>>

\* compute_tempo or compute_loudness_lufs raises on the signal
ExtractFails ==
    /\ flow \in {"query", "upload"} /\ pc = "extract"
    /\ log' = Append(log, "extractor raised")
    /\ Raise("extract")
    /\ UNCHANGED <<flow, q, q0, spid, notes, preview_meta, audio_bytes,
                   dec, sig, est, response, loopVars, fnVars>>

\* duration, tempo, loudness, energy, then the key estimate unpacked into
\* three names, the Camelot code, the payload and the shaped record.
\* Unpacking a tuple that is not of length 3 raises ValueError at the call.
Analyze ==
    /\ flow \in {"query", "upload"} /\ pc = "extract"
    /\ \E m \in Measurements, chroma \in FlowChroma :
         LET km == estimate_key_mode_krumhansl(chroma)
         IN  /\ est' = [chroma |-> chroma, returned |-> km]
             /\ IF Len(km) # 3
                THEN /\ Raise("unpack key estimate")
                     /\ response' = response
                ELSE /\ response' = Some(to_spotify_like(
                                       IF flow = "query" THEN UrlPayload(sig[1], m, km)
                                       ELSE UploadPayload(sig[1], m, km)))
                     /\ status' = 200
                     /\ error' = ""
                     /\ pc' = "done"
    /\ log' = Append(log, "estimate_key_mode_krumhansl")
    /\ UNCHANGED <<flow, q, q0, spid, notes, preview_meta, audio_bytes,
                   dec, sig, loopVars, fnVars>>

-----------------------------------------------------------------------------
(* One request through POST /analyze or POST /analyze/upload *)

NoEst == [chroma |-> [raised |-> FALSE, pcv |-> ZeroPC], returned |-> <<>>]

Idle ==
    /\ spid = None
    /\ notes = <<>>
    /\ status = 0
    /\ error = ""
    /\ log = <<>>
    /\ preview_meta = None
    /\ dec = DecIdle
    /\ sig = None
    /\ est = NoEst
    /\ response = None

LoopIdle == tasks = <<>> /\ running = 0
FnIdle == arg = <<>> /\ ret = None

Init ==
    /\ \/ flow = "query" /\ q \in Queries
       \/ flow = "upload" /\ q = NoQuery
    /\ q0 = q
    /\ pc = "start"
    /\ audio_bytes = <<>>
    /\ Idle /\ LoopIdle /\ FnIdle

Next ==
    \/ QueryStart \/ SpotifyReturns \/ SpotifyFails \/ ChooseSource
    \/ DeezerReturns \/ DeezerFails \/ AppleReturns \/ AppleFails
    \/ FetchReturns \/ FetchFails \/ UploadRead
    \/ SfReadOk \/ SfReadRejects \/ SfReadRejectsNoTmp
    \/ TmpWriteOk \/ TmpWriteFails \/ LibrosaLoadOk \/ LibrosaLoadFails
    \/ UnlinkOk \/ UnlinkFails \/ Resample
    \/ ExtractFails \/ Analyze

Spec == Init /\ [][Next]_vars

-----------------------------------------------------------------------------
(* The decoder on its own: load_audio_from_bytes(b) for b in ByteBufs *)

InitDec ==
    /\ flow = "decoder"
    /\ q = NoQuery
    /\ q0 = q
    /\ pc = "decode"
    /\ audio_bytes \in ByteBufs
    /\ Idle /\ LoopIdle /\ FnIdle

NextDec ==
    \/ SfReadOk \/ SfReadRejects \/ SfReadRejectsNoTmp
    \/ TmpWriteOk \/ TmpWriteFails \/ LibrosaLoadOk \/ LibrosaLoadFails
    \/ UnlinkOk \/ UnlinkFails \/ Resample

SpecDec == InitDec /\ [][NextDec]_vars

-----------------------------------------------------------------------------
(* The Camelot lookup on its own: to_camelot(key_name, mode_name) *)

KeyNameArgs ==
    {None, Some(""), Some("H")} \cup { Some(KeyName(KEY_TO_NUMBER[i])) : i \in 1..Len(KEY_TO_NUMBER) }
ModeNameArgs == {None, Some(""), Some("major"), Some("minor"), Some("Major")}

InitCamelot ==
    /\ flow = "camelot"
    /\ q = NoQuery
    /\ q0 = q
    /\ pc = "call"
    /\ audio_bytes = <<>>
    /\ arg \in KeyNameArgs \X ModeNameArgs
    /\ ret = None
    /\ Idle /\ LoopIdle

CallToCamelot ==
    /\ flow = "camelot" /\ pc = "call"
    /\ ret' = to_camelot(arg[1], arg[2])
    /\ pc' = "returned"
    /\ UNCHANGED <<flow, q, q0, spid, notes, status, error, log, preview_meta,
                   audio_bytes, dec, sig, est, response, loopVars, arg>>

NextCamelot == CallToCamelot

SpecCamelot == InitCamelot /\ [][NextCamelot]_vars

-----------------------------------------------------------------------------
(* The key estimator on its own: estimate_key_mode_krumhansl on the outcomes *)
(* of the chroma computation                                                *)

InitKey ==
    /\ flow = "key"
    /\ q = NoQuery
    /\ q0 = q
    /\ pc = "call"
    /\ audio_bytes = <<>>
    /\ arg \in { <<c>> : c \in ChromaOutcomes }
    /\ ret = None
    /\ Idle /\ LoopIdle

CallEstimateKeyMode ==
    /\ flow = "key" /\ pc = "call"
    /\ ret' = estimate_key_mode_krumhansl(arg[1])
    /\ pc' = "returned"
    /\ UNCHANGED <<flow, q, q0, spid, notes, status, error, log, preview_meta,
                   audio_bytes, dec, sig, est, response, loopVars, arg>>

NextKey == CallEstimateKeyMode

SpecKey == InitKey /\ [][NextKey]_vars

-----------------------------------------------------------------------------
(* Several requests on one asyncio event loop.  Both routes are "async def" *)
(* and call load_audio_from_bytes and the extractors directly, so a request *)
(* gives the loop back only at an await.                                    *)

Requests == 1..NReq

AwaitStages == {"await_spotify", "await_deezer", "await_apple", "await_fetch", "await_read"}
CpuStages == {"decoding", "extracting"}
EndStages == {"done", "failed"}

\* where a coroutine resumed from an await (or started) stops next
NextStage(stage) ==
    CASE stage = "new" -> {"await_spotify", "await_deezer", "await_fetch", "await_read", "failed"}
      [] stage = "await_spotify" -> {"await_deezer", "await_fetch", "failed"}
      [] stage = "await_deezer" -> {"await_apple", "await_fetch", "failed"}
      [] stage = "await_apple" -> {"await_fetch", "failed"}
      [] stage = "await_fetch" -> {"decoding", "failed"}
      [] stage = "await_read" -> {"decoding"}
      [] stage = "decoding" -> {"extracting", "failed"}
      [] stage = "extracting" -> {"done", "failed"}
      [] OTHER -> {}

\* the loop runs one callback at a time: a request is started or resumed
\* only when no other request's code is running
CanRun(r) == running = 0 \/ running = r

\* request r runs from where it stands to its next stop
LoopStep(r) ==
    /\ flow = "loop"
    /\ CanRun(r)
    /\ \E s \in NextStage(tasks[r]) :
         /\ tasks' = [tasks EXCEPT ![r] = s]
         /\ running' = IF s \in CpuStages THEN r ELSE 0
    /\ UNCHANGED <<reqVars, fnVars>>

\* the route handler is entered and runs to its first await
RequestStarts(r) == tasks[r] = "new" /\ LoopStep(r)

\* an awaited network call or file read completes and the coroutine goes on
\* to its next await, into the decoder, or out with an error
RequestResumes(r) == tasks[r] \in AwaitStages /\ LoopStep(r)

\* load_audio_from_bytes runs to its end on the loop thread
RequestDecodes(r) == tasks[r] = "decoding" /\ LoopStep(r)

\* the extractors, the key estimate and the shaping run to the return
RequestExtracts(r) == tasks[r] = "extracting" /\ LoopStep(r)

InitLoop ==
    /\ flow = "loop"
    /\ q = NoQuery
    /\ q0 = q
    /\ pc = "loop"
    /\ audio_bytes = <<>>
    /\ tasks = [r \in Requests |-> "new"]
    /\ running = 0
    /\ Idle /\ FnIdle

NextLoop ==
    \E r \in Requests :
        \/ RequestStarts(r) \/ RequestResumes(r)
        \/ RequestDecodes(r) \/ RequestExtracts(r)

SpecLoop == InitLoop /\ [][NextLoop]_vars

-----------------------------------------------------------------------------
(* Properties *)

InLog(e) == \E i \in 1..Len(log) : log[i] = e
Count(seq, x) == Cardinality({ i \in 1..Len(seq) : seq[i] = x })

\* the request is over and both catalog resolvers were called and returned None
BothCatalogsEmpty ==
    /\ pc = "done"
    /\ ~Truthy(q.audio_url)
    /\ InLog("resolve_deezer_preview") /\ ~InLog("resolve_deezer_preview raised")
    /\ InLog("resolve_apple_preview") /\ ~InLog("resolve_apple_preview raised")
    /\ preview_meta = None

\* C1: in the from-query flow, when no audio_url is supplied and both the
\* Deezer and the Apple lookup return no match, the request ends with 404,
\* no record is returned and no fetch, decode or extraction step ran.
C1_NotFound ==
    (flow = "query" /\ BothCatalogsEmpty) =>
        /\ status = 404
        /\ response = None
        /\ ~InLog("fetch_bytes")
        /\ audio_bytes = <<>> /\ dec = DecIdle /\ sig = None /\ est = NoEst

\* both catalogs were searched over the network and neither had a preview
C1_Witness ==
    /\ flow = "query" /\ BothCatalogsEmpty
    /\ Truthy(q.artist) /\ Truthy(q.title)
    /\ status = 404

CatalogOrigins == {"resolve_deezer_preview", "resolve_apple_preview"}

\* C2: a failing catalog search never ends the request with an error of its
\* own (the request ends with a record or with the 404), and after a failed
\* Deezer search the Apple search is still attempted.
C2_CatalogFailureDegrades ==
    pc = "done" =>
        /\ error \notin CatalogOrigins
        /\ (InLog("resolve_deezer_preview raised") => InLog("resolve_apple_preview"))

\* C3: the metadata call is made only with a parsed id and a token; when it
\* fails, exactly one failure note is recorded, title and artist are the
\* user's, the failure ends nothing and the request goes on to the audio
\* source.
C3_EnrichmentNonFatal ==
    /\ InLog("resolve_spotify_metadata") =>
           /\ parse_spotify_id(q0.spotify) # None
           /\ Truthy(q0.spotify_bearer)
    /\ InLog("resolve_spotify_metadata raised") =>
           /\ Count(notes, NoteSpotifyFailed) = 1
           /\ notes[1] = NoteSpotifyFailed
           /\ q.title = q0.title /\ q.artist = q0.artist
           /\ pc # "await_spotify"
           /\ error # "resolve_spotify_metadata"
           /\ (pc = "choose_source" \/ Last(log) # "resolve_spotify_metadata raised"
               \/ (pc = "done" /\ status = 404))
    /\ ~InLog("resolve_spotify_metadata raised") => Count(notes, NoteSpotifyFailed) = 0

\* the metadata call failed and the request still produced a record
C3_Witness ==
    /\ InLog("resolve_spotify_metadata raised")
    /\ status = 200
    /\ response[1].analysis_notes[1][1] = NoteSpotifyFailed

\* the estimator ran on an all-zero pitch-class vector
Inconclusive == est.returned # <<>> /\ ~est.chroma.raised /\ est.chroma.pcv = ZeroPC

\* C4: an inconclusive key estimate (all-zero pitch-class vector) is not an
\* error: the request succeeds and key, key_name, mode, mode_name and camelot
\* are all null.
C4_InconclusiveIsNotAnError ==
    (pc = "done" /\ Inconclusive) =>
        /\ status = 200
        /\ response # None
        /\ \A f \in {"key", "key_name", "mode", "mode_name", "camelot"} : response[1][f] = None

\* C5: every returned record has exactly the 19 documented fields, type is
\* "audio_features", time_signature is null and analysis_notes is a list.
C5_AllFieldsPresent ==
    /\ Cardinality(ResponseFields) = 19
    /\ (status = 200 <=> response # None)
    /\ response # None =>
           /\ DOMAIN response[1] = ResponseFields
           /\ response[1].type = Some("audio_features")
           /\ response[1].time_signature = None
           /\ response[1].analysis_notes # None
           /\ DOMAIN response[1].analysis_notes[1] = 1..Len(response[1].analysis_notes[1])

\* a record whose tonal fields and spotify_id are absent is still complete
C5_Witness ==
    /\ status = 200
    /\ response[1].key = None /\ response[1].camelot = None
    /\ response[1].spotify_id = None
    /\ response[1].valence = None

\* load_audio_from_bytes returned (the caller goes on) or raised
DecoderLeft == pc \in {"extract", "done"}

UnlinkAttempts == Count(log, "os.unlink") + Count(log, "os.unlink raised")

\* the outcome of the call is the outcome of the decode inside the try block
OriginalOutcome ==
    /\ InLog("librosa.load") => pc = "extract" /\ status = 0 /\ error = "" /\ sig # None
    /\ InLog("librosa.load raised") => pc = "done" /\ status = 500 /\ error = "librosa.load"
    /\ InLog("tmp.write raised") => pc = "done" /\ status = 500 /\ error = "tmp.write"

\* C6 as stated: on every exit path of a fallback decode the temp file
\* created by the call is gone when the call returns or raises, and the
\* outcome is the original decode outcome.
C6_TempFileAlwaysGone ==
    (DecoderLeft /\ dec.tmp # "none") => (dec.tmp = "removed" /\ OriginalOutcome)

\* C6 amended: on every exit path of a fallback decode the removal of the
\* temp file has been attempted exactly once when the call returns or
\* raises, the file is gone unless that removal itself failed, and the
\* outcome is the original decode outcome, never the cleanup error.
C6_CleanupBestEffort ==
    (DecoderLeft /\ dec.tmp # "none") =>
        /\ UnlinkAttempts = 1
        /\ (dec.tmp = "exists" <=> InLog("os.unlink raised"))
        /\ (dec.tmp = "removed" <=> InLog("os.unlink"))
        /\ error # "os.unlink"
        /\ OriginalOutcome

\* the decode failed, then the cleanup failed, and the decode error came out
C6_Witness ==
    /\ DecoderLeft
    /\ InLog("librosa.load raised") /\ InLog("os.unlink raised")
    /\ error = "librosa.load"

\* C7: while one request is in its decode / extraction step, any other
\* unfinished request can still take a step.
C7_DecodeDoesNotBlock ==
    \A a, b \in DOMAIN tasks :
        (a # b /\ tasks[a] \in CpuStages /\ tasks[b] \notin EndStages) => ENABLED LoopStep(b)

\* C8: for every pitch class and both modes, to_camelot of the estimator's
\* (sharp-preferred) key name gives a code; it gives null only for an absent
\* input or a pair outside the table.
C8_CamelotCoversEstimatorNames ==
    pc = "returned" =>
        /\ (/\ \E k \in 0..11 : arg[1] = Some(NUMBER_TO_KEY_SHARP[k])
            /\ arg[2] \in {Some("major"), Some("minor")}) => ret # None
        /\ ret = None =>
               \/ ~Truthy(arg[1]) \/ ~Truthy(arg[2])
               \/ (arg[1][1] \o " " \o arg[2][1]) \notin DOMAIN CAMELOT_TABLE

SourceNotes == {"Used provided audio_url.", "Fetched preview from deezer.",
                "Fetched preview from apple."}

\* position of the first occurrence of e in the log, 0 if absent
LogIndex(e) == IF InLog(e) THEN CHOOSE i \in 1..Len(log) : log[i] = e /\ \A j \in 1..(i - 1) : log[j] # e
               ELSE 0

\* C9: a given audio_url is fetched and no catalog is asked; otherwise Deezer
\* is asked first and Apple only after Deezer returned no preview; a
\* successful response ends its notes with the one note naming the source
\* whose bytes were fetched.
C9_SourceOrder ==
    flow = "query" =>
        /\ Truthy(q0.audio_url) =>
               /\ ~InLog("resolve_deezer_preview") /\ ~InLog("resolve_apple_preview")
               /\ (status = 200 => Last(notes) = "Used provided audio_url.")
        /\ (~Truthy(q0.audio_url) /\ InLog("fetch_bytes")) => InLog("resolve_deezer_preview")
        /\ InLog("resolve_apple_preview") =>
               /\ LogIndex("resolve_deezer_preview") > 0
               /\ LogIndex("resolve_deezer_preview") < LogIndex("resolve_apple_preview")
               /\ ~InLog("resolve_deezer_preview raised")
               /\ (InLog("fetch_bytes") => preview_meta[1].source = "apple")
        /\ (InLog("fetch_bytes") /\ ~Truthy(q0.audio_url) /\ ~InLog("resolve_apple_preview")) =>
               preview_meta[1].source = "deezer"
        /\ status = 200 =>
               /\ response[1].analysis_notes = Some(notes)
               /\ Cardinality({ i \in 1..Len(notes) : notes[i] \in SourceNotes }) = 1
               /\ Last(notes) \in SourceNotes
               /\ (~Truthy(q0.audio_url) /\ InLog("resolve_apple_preview")) =>
                      Last(notes) = "Fetched preview from apple."
               /\ (~Truthy(q0.audio_url) /\ ~InLog("resolve_apple_preview")) =>
                      Last(notes) = "Fetched preview from deezer."

\* Deezer had nothing, Apple supplied the preview, and an enrichment note
\* precedes the source note
C9_Witness ==
    /\ flow = "query" /\ status = 200
    /\ InLog("resolve_apple_preview")
    /\ Len(notes) = 2
    /\ Last(response[1].analysis_notes[1]) = "Fetched preview from apple."

\* the buffer starts with "ID3" or with ff fb / ff f3 / ff f2
StartsLikeMp3(b) ==
    \/ Len(b) >= 3 /\ b[1] = 73 /\ b[2] = 68 /\ b[3] = 51
    \/ Len(b) >= 2 /\ b[1] = 255 /\ b[2] \in {251, 243, 242}

\* "ftyp" lies wholly within the first 16 bytes
FtypInFirst16(b) ==
    \E i \in 1..13 : /\ i + 3 <= Len(b)
                     /\ b[i] = 102 /\ b[i + 1] = 116 /\ b[i + 2] = 121 /\ b[i + 3] = 112

RotationScore(pcv, profile, k) ==
    profile[0] * pcv[k % 12] + profile[1] * pcv[(k + 1) % 12]
    + profile[2] * pcv[(k + 2) % 12] + profile[3] * pcv[(k + 3) % 12]
    + profile[4] * pcv[(k + 4) % 12] + profile[5] * pcv[(k + 5) % 12]
    + profile[6] * pcv[(k + 6) % 12] + profile[7] * pcv[(k + 7) % 12]
    + profile[8] * pcv[(k + 8) % 12] + profile[9] * pcv[(k + 9) % 12]
    + profile[10] * pcv[(k + 10) % 12] + profile[11] * pcv[(k + 11) % 12]

\* the highest score over the 12 rotations
BestScore(pcv, profile) ==
    CHOOSE m \in { RotationScore(pcv, profile, k) : k \in 0..11 } :
        \A k \in 0..11 : RotationScore(pcv, profile, k) <= m

SharpNames == <<"C", "C#", "D", "D#", "E", "F", "F#", "G", "G#", "A", "A#", "B">>

\* the estimator was given a vector that is not all zero
KeyEstimated ==
    /\ flow = "key" /\ pc = "returned"
    /\ ~arg[1].raised /\ arg[1].pcv # ZeroPC

\* C11: for a non-zero salience vector the estimator returns the mode whose
\* best rotation score is higher, major on a tie; key_number is the lowest
\* rotation reaching that mode's best score and lies in 0..11; key_name is
\* the sharp-preferred name of key_number.
C11_BestRotationWins ==
    KeyEstimated =>
        LET pcv == arg[1].pcv
            bestMajor == BestScore(pcv, _KRUMHANSL_MAJOR)
            bestMinor == BestScore(pcv, _KRUMHANSL_MINOR)
            profile == IF bestMajor >= bestMinor THEN _KRUMHANSL_MAJOR ELSE _KRUMHANSL_MINOR
            top == IF bestMajor >= bestMinor THEN bestMajor ELSE bestMinor
        IN  /\ Len(ret) = 3
            /\ ret[3] = Some(IF bestMajor >= bestMinor THEN "major" ELSE "minor")
            /\ ret[1] # None /\ ret[1][1] \in 0..11
            /\ RotationScore(pcv, profile, ret[1][1]) = top
            /\ \A j \in 0..(ret[1][1] - 1) : RotationScore(pcv, profile, j) < top
            /\ ret[2] = Some(SharpNames[ret[1][1] + 1])

\* the best major and minor scores are equal, two rotations reach the best
\* major score, and the estimate is major at the lower of them
C11_Witness ==
    /\ KeyEstimated
    /\ BestScore(arg[1].pcv, _KRUMHANSL_MAJOR) = BestScore(arg[1].pcv, _KRUMHANSL_MINOR)
    /\ ret[3] = Some("major")
    /\ \E j \in (ret[1][1] + 1)..11 :
           RotationScore(arg[1].pcv, _KRUMHANSL_MAJOR, j) = BestScore(arg[1].pcv, _KRUMHANSL_MAJOR)

TonalFields == {"key", "key_name", "mode", "mode_name"}

====
